---- MODULE Spec2Model ----
(***************************************************************************)
(* Fleet Commander (fleet_ops.py): the dashboard loop, the status          *)
(* inspector get_git_status and the sync executor sync_repo.               *)
(*                                                                         *)
(* The entries of the root directory are 1..MaxFolders; the name of entry  *)
(* f starts with the f-th letter of the alphabet, in upper or lower case,  *)
(* and sorted(os.listdir(ROOT_DIR)) orders the names by code point.  The   *)
(* Git implementation is an external collaborator: every call into it      *)
(* either                                                                  *)
(* succeeds or raises, chosen nondeterministically, and its effect on the  *)
(* repository (working tree dirty, commits ahead of / behind the remote)   *)
(* is kept in tree.                                                        *)
(***************************************************************************)
EXTENDS Integers, Sequences, FiniteSets, TLC

\* ---------------------------------------------------------------- bounds
MaxFolders == 2
MaxCommits == 1
MaxCycles == 2
\* repositories that start with commits ahead of or behind their remote
MaxDiverged == 1

Folders == 1..MaxFolders
Kinds == {"file", "dir", "repo"}

\* ------------------------------------------------------------- constants
AUTO_MESSAGE == "Auto-sync via Fleet Commander"
UPDATE_MESSAGE == "Update via Fleet Commander"

VARIABLES
  rootExists,   \* os.path.exists(ROOT_DIR)
  fs,           \* entry of ROOT_DIR -> "file" | "dir" (no .git) | "repo" (.git inside)
  tree,         \* entry -> [wt, ahead, behind]: the repository as Git sees it
  gitignore,    \* entries that have a .gitignore file
  alias,        \* the alias line is in ~/.bashrc
  pc,           \* position of main_dashboard
  cycles,       \* number of scans started
  folder_list,  \* sorted(os.listdir(ROOT_DIR)) of the running scan
  scanIdx,      \* position of the scan loop in folder_list
  repos_found,  \* the status records of the running / last scan
  batchIdx,     \* position of the batch loop in repos_found
  scanned,      \* entry -> how the running / last scan dealt with it
  insp,         \* the last call of get_git_status: its outcomes and result
  last,         \* the last call of sync_repo: its argument, steps and report
  synced,       \* the sync_repo calls since the last scan: name and report
  crashCause,   \* what raised out of main_dashboard, "" if nothing did
  cmd           \* the inputs read since the last prompt was shown

vars == <<rootExists, fs, tree, gitignore, alias, pc, cycles, folder_list,
          scanIdx, repos_found, batchIdx, scanned, insp, last, synced,
          crashCause, cmd>>

\* -------------------------------------------------------------- helpers
NoTree == [wt |-> FALSE, ahead |-> 0, behind |-> 0]

TreeStates == [wt : BOOLEAN, ahead : 0..MaxCommits, behind : 0..MaxCommits]

\* get_git_status returning None
None == [name |-> 0, dirty |-> FALSE, ahead |-> 0, behind |-> 0, branch |-> "none"]

\* no input() has been answered since the prompt
NoCmd == [key |-> "", n |-> 0, asked |-> FALSE, answer |-> "", typed |-> ""]

NoInsp == [folder |-> 0, done |-> {}, failed |-> {}, tracked |-> FALSE,
           result |-> None]

Op(name, ok) == [op |-> name, ok |-> ok]

NoSync == [called |-> FALSE, rec |-> None, msg |-> "", committed |-> "",
           post |-> NoTree, ops |-> <<>>, report |-> "none", raised |-> FALSE]

\* The name of entry f starts with the f-th letter of the alphabet, in upper
\* case for the even entries and in lower case for the odd ones: "a...",
\* "B...", "c...", ...
Letter(f) == f

Upper(f) == f % 2 = 0

\* ord() of the first character of the name: 'A' is 65, 'a' is 97
CodePoint(f) == IF Upper(f) THEN 64 + Letter(f) ELSE 96 + Letter(f)

RECURSIVE SortedSeq(_)
\* sorted(...) of a set of names: str comparison is by code point
SortedSeq(S) ==
  IF S = {} THEN <<>>
  ELSE LET m == CHOOSE x \in S : \A y \in S : CodePoint(x) <= CodePoint(y)
       IN <<m>> \o SortedSeq(S \ {m})

\* str.lower() on the answers the prompts are given
Lower(s) == IF s = "Y" THEN "y" ELSE IF s = "Q" THEN "q" ELSE s

\* The outcomes of the Git calls of one get_git_status call.  A call that
\* raises ends the enclosing try block, so the calls behind it are not made
\* and their outcomes are fixed to the value that raises nothing.
InspectOutcomes ==
  {o \in [repoOk : BOOLEAN, branchOk : BOOLEAN, dirtyOk : BOOLEAN,
          fetchOk : BOOLEAN, count : {"ok", "untracked", "raise"}] :
     /\ ~o.repoOk => o.branchOk /\ o.dirtyOk
     /\ ~(o.repoOk /\ o.dirtyOk) => o.fetchOk
     /\ ~(o.repoOk /\ o.dirtyOk /\ o.fetchOk /\ o.branchOk) => o.count = "ok"}

\* The call of sync_repo that raises, if any: the first one that raises ends
\* the function or its try block, so at most one call raises.
FailPoints == {"none", "show", "stage", "commit", "lookup", "pull", "push"}

\* ------------------------------------------------------ Status Inspector
\* the try block "Check Sync" of get_git_status computed both counts
WasCounted(o) ==
  o.repoOk /\ o.dirtyOk /\ o.fetchOk /\ o.branchOk /\ o.count = "ok"

\* get_git_status without the outer try: a record even when Repo() raised
get_git_status_no_outer_try(f, st, o) ==
  IF ~o.repoOk \/ ~o.dirtyOk
  THEN [name |-> f, dirty |-> FALSE, ahead |-> 0, behind |-> 0,
        branch |-> "unknown"]
  ELSE [name |-> f, dirty |-> st.wt,
        ahead |-> IF WasCounted(o) THEN st.ahead ELSE 0,
        behind |-> IF WasCounted(o) THEN st.behind ELSE 0,
        branch |-> IF o.branchOk THEN "main" ELSE "DETACHED"]

\* get_git_status counting against the refs it has when the fetch raised
get_git_status_counts_anyway(f, st, o) ==
  IF ~o.repoOk \/ ~o.dirtyOk THEN None
  ELSE [name |-> f, dirty |-> st.wt,
        ahead |-> IF o.branchOk /\ o.count = "ok" THEN st.ahead ELSE 0,
        behind |-> IF o.branchOk /\ o.count = "ok" THEN st.behind ELSE 0,
        branch |-> IF o.branchOk THEN "main" ELSE "DETACHED"]

\* get_git_status(repo_path): the record, or None
get_git_status(f, st, o) ==
  IF ~o.repoOk THEN None
  ELSE LET branch == IF o.branchOk THEN "main" ELSE "DETACHED"
       IN IF ~o.dirtyOk THEN None
          ELSE [name |-> f, dirty |-> st.wt,
                ahead |-> IF WasCounted(o) THEN st.ahead ELSE 0,
                behind |-> IF WasCounted(o) THEN st.behind ELSE 0,
                branch |-> branch]

\* the inspection operations of a get_git_status call that completed
InspectDone(o) ==
  (IF o.repoOk THEN {"open"} ELSE {})
  \cup (IF o.repoOk /\ o.branchOk THEN {"branch"} ELSE {})
  \cup (IF o.repoOk /\ o.dirtyOk THEN {"dirty"} ELSE {})
  \cup (IF o.repoOk /\ o.dirtyOk /\ o.fetchOk THEN {"fetch"} ELSE {})
  \cup (IF o.repoOk /\ o.dirtyOk /\ o.fetchOk /\ o.branchOk /\ o.count # "raise"
        THEN {"count"} ELSE {})

\* the inspection operations of a get_git_status call that raised
InspectFailed(o) ==
  (IF ~o.repoOk THEN {"open"} ELSE {})
  \cup (IF o.repoOk /\ ~o.branchOk THEN {"branch"} ELSE {})
  \cup (IF o.repoOk /\ ~o.dirtyOk THEN {"dirty"} ELSE {})
  \cup (IF o.repoOk /\ o.dirtyOk /\ ~o.fetchOk THEN {"fetch"} ELSE {})
  \cup (IF o.repoOk /\ o.dirtyOk /\ o.fetchOk /\ (~o.branchOk \/ o.count = "raise")
        THEN {"count"} ELSE {})

\* --------------------------------------------------------- Sync Executor
\* the "Save" step of sync_repo
save_phase(rec, st, failAt) ==
  IF ~rec.dirty THEN [st |-> st, ops |-> <<>>, raised |-> FALSE]
  ELSE IF failAt = "show" THEN
         [st |-> st, ops |-> <<Op("show", FALSE)>>, raised |-> TRUE]
  ELSE IF failAt = "stage" THEN
         [st |-> st, ops |-> <<Op("show", TRUE), Op("stage", FALSE)>>,
          raised |-> TRUE]
  ELSE IF failAt = "commit" THEN
         [st |-> st,
          ops |-> <<Op("show", TRUE), Op("stage", TRUE), Op("commit", FALSE)>>,
          raised |-> TRUE]
  ELSE [st |-> [st EXCEPT !.wt = FALSE, !.ahead = @ + 1],
        ops |-> <<Op("show", TRUE), Op("stage", TRUE), Op("commit", TRUE)>>,
        raised |-> FALSE]

\* remote_phase deciding the push on the working tree as it is after the commit
remote_phase_rereads_dirty(rec, st, failAt) ==
  LET doPull == rec.behind > 0
      pullOk == failAt # "pull"
      stP == IF doPull /\ pullOk
             THEN [st EXCEPT !.behind = 0,
                             !.ahead = IF st.ahead > 0 /\ st.behind > 0
                                       THEN @ + 1 ELSE @]
             ELSE st
      pullOps == IF doPull THEN <<Op("pull", pullOk)>> ELSE <<>>
      doPush == st.wt \/ rec.ahead > 0
      \* the remote rejects a push from a branch that is behind it
      pushOk == failAt # "push" /\ stP.behind = 0
      stQ == IF doPush /\ pushOk THEN [stP EXCEPT !.ahead = 0] ELSE stP
      pushOps == IF doPush THEN <<Op("push", pushOk)>> ELSE <<>>
      clean == ~rec.dirty /\ rec.ahead = 0 /\ rec.behind = 0
  IN IF failAt = "lookup" THEN
       [st |-> st, ops |-> <<Op("lookup", FALSE)>>, report |-> "error"]
     ELSE IF doPull /\ ~pullOk THEN
       [st |-> st, ops |-> <<Op("lookup", TRUE)>> \o pullOps,
        report |-> "error"]
     ELSE IF doPush /\ ~pushOk THEN
       [st |-> stP, ops |-> <<Op("lookup", TRUE)>> \o pullOps \o pushOps,
        report |-> "error"]
     ELSE
       [st |-> stQ, ops |-> <<Op("lookup", TRUE)>> \o pullOps \o pushOps,
        report |-> IF clean THEN "clean" ELSE "none"]

\* remote_phase pushing only when the scan counted commits ahead
remote_phase_push_if_ahead(rec, st, failAt) ==
  LET doPull == rec.behind > 0
      pullOk == failAt # "pull"
      stP == IF doPull /\ pullOk
             THEN [st EXCEPT !.behind = 0,
                             !.ahead = IF st.ahead > 0 /\ st.behind > 0
                                       THEN @ + 1 ELSE @]
             ELSE st
      pullOps == IF doPull THEN <<Op("pull", pullOk)>> ELSE <<>>
      doPush == rec.ahead > 0
      \* the remote rejects a push from a branch that is behind it
      pushOk == failAt # "push" /\ stP.behind = 0
      stQ == IF doPush /\ pushOk THEN [stP EXCEPT !.ahead = 0] ELSE stP
      pushOps == IF doPush THEN <<Op("push", pushOk)>> ELSE <<>>
      clean == ~rec.dirty /\ rec.ahead = 0 /\ rec.behind = 0
  IN IF failAt = "lookup" THEN
       [st |-> st, ops |-> <<Op("lookup", FALSE)>>, report |-> "error"]
     ELSE IF doPull /\ ~pullOk THEN
       [st |-> st, ops |-> <<Op("lookup", TRUE)>> \o pullOps,
        report |-> "error"]
     ELSE IF doPush /\ ~pushOk THEN
       [st |-> stP, ops |-> <<Op("lookup", TRUE)>> \o pullOps \o pushOps,
        report |-> "error"]
     ELSE
       [st |-> stQ, ops |-> <<Op("lookup", TRUE)>> \o pullOps \o pushOps,
        report |-> IF clean THEN "clean" ELSE "none"]

\* remote_phase with the pull and the push each in a try of its own: a pull
\* that raises is reported and the push is attempted all the same
remote_phase_push_after_failed_pull(rec, st, failAt) ==
  LET doPull == rec.behind > 0
      pullOk == failAt # "pull"
      stP == IF doPull /\ pullOk
             THEN [st EXCEPT !.behind = 0,
                             !.ahead = IF st.ahead > 0 /\ st.behind > 0
                                       THEN @ + 1 ELSE @]
             ELSE st
      pullOps == IF doPull THEN <<Op("pull", pullOk)>> ELSE <<>>
      doPush == rec.dirty \/ rec.ahead > 0
      pushOk == failAt # "push" /\ stP.behind = 0
      stQ == IF doPush /\ pushOk THEN [stP EXCEPT !.ahead = 0] ELSE stP
      pushOps == IF doPush THEN <<Op("push", pushOk)>> ELSE <<>>
      clean == ~rec.dirty /\ rec.ahead = 0 /\ rec.behind = 0
      failed == (doPull /\ ~pullOk) \/ (doPush /\ ~pushOk)
  IN IF failAt = "lookup" THEN
       [st |-> st, ops |-> <<Op("lookup", FALSE)>>, report |-> "error"]
     ELSE
       [st |-> stQ, ops |-> <<Op("lookup", TRUE)>> \o pullOps \o pushOps,
        report |-> IF failed THEN "error"
                   ELSE IF clean THEN "clean" ELSE "none"]

\* remote_phase with the push placed ahead of the pull
remote_phase_push_first(rec, st, failAt) ==
  LET doPush == rec.dirty \/ rec.ahead > 0
      pushOk == failAt # "push" /\ st.behind = 0
      stP == IF doPush /\ pushOk THEN [st EXCEPT !.ahead = 0] ELSE st
      pushOps == IF doPush THEN <<Op("push", pushOk)>> ELSE <<>>
      doPull == rec.behind > 0
      pullOk == failAt # "pull"
      stQ == IF doPull /\ pullOk THEN [stP EXCEPT !.behind = 0] ELSE stP
      pullOps == IF doPull THEN <<Op("pull", pullOk)>> ELSE <<>>
      clean == ~rec.dirty /\ rec.ahead = 0 /\ rec.behind = 0
  IN IF failAt = "lookup" THEN
       [st |-> st, ops |-> <<Op("lookup", FALSE)>>, report |-> "error"]
     ELSE IF doPush /\ ~pushOk THEN
       [st |-> st, ops |-> <<Op("lookup", TRUE)>> \o pushOps,
        report |-> "error"]
     ELSE IF doPull /\ ~pullOk THEN
       [st |-> stP, ops |-> <<Op("lookup", TRUE)>> \o pushOps \o pullOps,
        report |-> "error"]
     ELSE
       [st |-> stQ, ops |-> <<Op("lookup", TRUE)>> \o pushOps \o pullOps,
        report |-> IF clean THEN "clean" ELSE "none"]

\* the "Push/Pull" try block of sync_repo
remote_phase(rec, st, failAt) ==
  LET doPull == rec.behind > 0
      pullOk == failAt # "pull"
      stP == IF doPull /\ pullOk
             THEN [st EXCEPT !.behind = 0,
                             !.ahead = IF st.ahead > 0 /\ st.behind > 0
                                       THEN @ + 1 ELSE @]
             ELSE st
      pullOps == IF doPull THEN <<Op("pull", pullOk)>> ELSE <<>>
      doPush == rec.dirty \/ rec.ahead > 0
      \* the remote rejects a push from a branch that is behind it
      pushOk == failAt # "push" /\ stP.behind = 0
      stQ == IF doPush /\ pushOk THEN [stP EXCEPT !.ahead = 0] ELSE stP
      pushOps == IF doPush THEN <<Op("push", pushOk)>> ELSE <<>>
      clean == ~rec.dirty /\ rec.ahead = 0 /\ rec.behind = 0
  IN IF failAt = "lookup" THEN
       [st |-> st, ops |-> <<Op("lookup", FALSE)>>, report |-> "error"]
     ELSE IF doPull /\ ~pullOk THEN
       [st |-> st, ops |-> <<Op("lookup", TRUE)>> \o pullOps,
        report |-> "error"]
     ELSE IF doPush /\ ~pushOk THEN
       [st |-> stP, ops |-> <<Op("lookup", TRUE)>> \o pullOps \o pushOps,
        report |-> "error"]
     ELSE
       [st |-> stQ, ops |-> <<Op("lookup", TRUE)>> \o pullOps \o pushOps,
        report |-> IF clean THEN "clean" ELSE "none"]

\* repo.index.commit(auto_message): the message of the commit the save step
\* made, "" when it made none
commit_of(s, msg) ==
  IF \E i \in DOMAIN s.ops : s.ops[i] = Op("commit", TRUE) THEN msg ELSE ""

\* sync_repo with the push/pull block placed ahead of the save step
sync_repo_remote_first(rec, msg, st, failAt) ==
  LET r == remote_phase(rec, st, failAt)
      s == save_phase(rec, r.st, failAt)
  IN [called |-> TRUE, rec |-> rec, msg |-> msg,
      committed |-> commit_of(s, msg), post |-> s.st,
      ops |-> r.ops \o s.ops, report |-> r.report, raised |-> s.raised]

\* sync_repo without the try around the push/pull block
sync_repo_no_try(rec, msg, st, failAt) ==
  LET s == save_phase(rec, st, failAt)
      r == remote_phase(rec, s.st, failAt)
  IN IF s.raised
     THEN [called |-> TRUE, rec |-> rec, msg |-> msg,
           committed |-> commit_of(s, msg), post |-> s.st,
           ops |-> s.ops, report |-> "none", raised |-> TRUE]
     ELSE [called |-> TRUE, rec |-> rec, msg |-> msg,
           committed |-> commit_of(s, msg), post |-> r.st,
           ops |-> s.ops \o r.ops,
           report |-> IF r.report = "error" THEN "none" ELSE r.report,
           raised |-> r.report = "error"]

\* sync_repo(repo_data, auto_message)
sync_repo(rec, msg, st, failAt) ==
  LET s == save_phase(rec, st, failAt)
      r == remote_phase(rec, s.st, failAt)
  IN IF s.raised
     THEN [called |-> TRUE, rec |-> rec, msg |-> msg,
           committed |-> commit_of(s, msg), post |-> s.st,
           ops |-> s.ops, report |-> "none", raised |-> TRUE]
     ELSE [called |-> TRUE, rec |-> rec, msg |-> msg,
           committed |-> commit_of(s, msg), post |-> r.st,
           ops |-> s.ops \o r.ops, report |-> r.report, raised |-> FALSE]

\* create_gitignore(repo_path): the entries that have a .gitignore afterwards
create_gitignore(f, ignored) == ignored \cup {f}

\* ------------------------------------------------------------------ Init
Init ==
  /\ rootExists \in BOOLEAN
  /\ fs \in [Folders -> Kinds]
  /\ tree \in [Folders -> TreeStates]
  /\ \A f \in Folders : (~rootExists \/ fs[f] # "repo") => tree[f] = NoTree
  /\ ~rootExists => \A f \in Folders : fs[f] = "file"
  /\ Cardinality({f \in Folders : tree[f].ahead + tree[f].behind > 0})
       <= MaxDiverged
  /\ gitignore = {}
  /\ alias = FALSE
  /\ pc = "start"
  /\ cycles = 0
  /\ folder_list = <<>>
  /\ scanIdx = 1
  /\ repos_found = <<>>
  /\ batchIdx = 0
  /\ scanned = [f \in Folders |-> "unseen"]
  /\ insp = NoInsp
  /\ last = NoSync
  /\ synced = <<>>
  /\ crashCause = ""
  /\ cmd = NoCmd

\* ------------------------------------------------------------- Dashboard
\* check_permissions that never returns False
check_permissions_always == TRUE

\* check_permissions()
check_permissions == rootExists

\* main_dashboard: the permission check before the loop
Start ==
  /\ pc = "start"
  /\ pc' = IF check_permissions THEN "top" ELSE "aborted"
  /\ UNCHANGED <<rootExists, fs, tree, gitignore, alias, cycles, folder_list,
                 scanIdx, repos_found, batchIdx, scanned, insp, last, synced,
                 crashCause, cmd>>

\* the head of the loop without repos_found = []: the records of the
\* previous scan stay in the list
BeginScan_keeps_records ==
  /\ pc = "top"
  /\ cycles < MaxCycles
  /\ \E listOk \in BOOLEAN :
       folder_list' = IF rootExists /\ listOk THEN SortedSeq(Folders) ELSE <<>>
  /\ cycles' = cycles + 1
  /\ scanIdx' = 1
  /\ batchIdx' = 0
  /\ scanned' = [f \in Folders |-> "unseen"]
  /\ insp' = NoInsp
  /\ last' = NoSync
  /\ synced' = <<>>
  /\ cmd' = NoCmd
  /\ pc' = "scan"
  /\ UNCHANGED <<rootExists, fs, tree, gitignore, alias, crashCause,
                 repos_found>>

\* the head of the while loop: repos_found = [] and the directory listing
BeginScan ==
  /\ pc = "top"
  /\ cycles < MaxCycles
  /\ \E listOk \in BOOLEAN :
       folder_list' = IF rootExists /\ listOk THEN SortedSeq(Folders) ELSE <<>>
  /\ cycles' = cycles + 1
  /\ repos_found' = <<>>
  /\ scanIdx' = 1
  /\ batchIdx' = 0
  /\ scanned' = [f \in Folders |-> "unseen"]
  /\ insp' = NoInsp
  /\ last' = NoSync
  /\ synced' = <<>>
  /\ cmd' = NoCmd
  /\ pc' = "scan"
  /\ UNCHANGED <<rootExists, fs, tree, gitignore, alias, crashCause>>

\* how one get_git_status call went, for scanned
Verdict(o, stat) ==
  IF ~o.repoOk THEN "invalid"
  ELSE IF stat = None THEN "dropped"
  ELSE IF WasCounted(o) THEN "counted"
  ELSE "zero"

\* one iteration of the scan loop
ScanFolder ==
  /\ pc = "scan"
  /\ scanIdx <= Len(folder_list)
  /\ LET f == folder_list[scanIdx]
     IN IF fs[f] = "repo"
        THEN \E o \in InspectOutcomes :
               LET stat == get_git_status(f, tree[f], o)
               IN /\ insp' = [folder |-> f, done |-> InspectDone(o),
                              failed |-> InspectFailed(o),
                              tracked |-> o.count # "untracked",
                              result |-> stat]
                  /\ repos_found' = IF stat # None
                                    THEN Append(repos_found, stat)
                                    ELSE repos_found
                  /\ scanned' = [scanned EXCEPT ![f] = Verdict(o, stat)]
        ELSE /\ scanned' = [scanned EXCEPT ![f] = "skipped"]
             /\ insp' = NoInsp
             /\ UNCHANGED repos_found
  /\ scanIdx' = scanIdx + 1
  /\ UNCHANGED <<rootExists, fs, tree, gitignore, alias, pc, cycles,
                 folder_list, batchIdx, last, synced, crashCause, cmd>>

\* the end of the scan: the menu is printed and the prompt is shown
ShowMenu ==
  /\ pc = "scan"
  /\ scanIdx > Len(folder_list)
  /\ pc' = "prompt"
  /\ insp' = NoInsp
  /\ UNCHANGED <<rootExists, fs, tree, gitignore, alias, cycles, folder_list,
                 scanIdx, repos_found, batchIdx, scanned, last, synced,
                 crashCause, cmd>>

\* choice == 'q'
Quit ==
  /\ pc = "prompt"
  /\ cmd' = [NoCmd EXCEPT !.key = "q"]
  /\ \E choice \in {"q", "Q"} : Lower(choice) = "q"
  /\ pc' = "exited"
  /\ UNCHANGED <<rootExists, fs, tree, gitignore, alias, cycles, folder_list,
                 scanIdx, repos_found, batchIdx, scanned, insp, last, synced,
                 crashCause>>

\* choice == 'r', and any choice that matches no branch
Refresh ==
  /\ pc = "prompt"
  /\ cmd' = [NoCmd EXCEPT !.key = "r"]
  /\ pc' = "top"
  /\ UNCHANGED <<rootExists, fs, tree, gitignore, alias, cycles, folder_list,
                 scanIdx, repos_found, batchIdx, scanned, insp, last, synced,
                 crashCause>>

\* choice == 's', sub == '1': setup_alias()
SetupAlias ==
  /\ pc = "prompt"
  /\ cmd' = [NoCmd EXCEPT !.key = "s"]
  /\ \E ioOk \in BOOLEAN :
       /\ alias' = (alias \/ ioOk)
       /\ pc' = IF ioOk THEN "top" ELSE "crashed"
       /\ crashCause' = IF ioOk THEN crashCause ELSE "setup"
  /\ UNCHANGED <<rootExists, fs, tree, gitignore, cycles, folder_list,
                 scanIdx, repos_found, batchIdx, scanned, insp, last, synced>>

\* choice == 's', sub == '2': create_gitignore for a repository number;
\* n = -1 stands for an input int() cannot parse
SetupIgnore ==
  /\ pc = "prompt"
  /\ cmd' = [NoCmd EXCEPT !.key = "s"]
  /\ \E n \in -1..(MaxFolders + 1), ioOk \in BOOLEAN :
       LET idx == n - 1
           inRange == 0 <= idx /\ idx < Len(repos_found)
           f == repos_found[idx + 1].name
           writes == inRange /\ f \notin gitignore
       IN IF n = -1
          THEN /\ pc' = "crashed"
               /\ crashCause' = "input"
               /\ UNCHANGED <<gitignore, tree>>
          ELSE IF writes /\ ~ioOk
          THEN /\ pc' = "crashed"
               /\ crashCause' = "setup"
               /\ UNCHANGED <<gitignore, tree>>
          ELSE /\ pc' = "top"
               /\ gitignore' = IF writes THEN create_gitignore(f, gitignore)
                               ELSE gitignore
               \* the new untracked file makes the working tree dirty
               /\ tree' = IF writes THEN [tree EXCEPT ![f].wt = TRUE] ELSE tree
               /\ UNCHANGED crashCause
  /\ UNCHANGED <<rootExists, fs, alias, cycles, folder_list, scanIdx,
                 repos_found, batchIdx, scanned, insp, last, synced>>

\* choice == 's' with any other sub
SetupOther ==
  /\ pc = "prompt"
  /\ cmd' = [NoCmd EXCEPT !.key = "s"]
  /\ pc' = "top"
  /\ UNCHANGED <<rootExists, fs, tree, gitignore, alias, cycles, folder_list,
                 scanIdx, repos_found, batchIdx, scanned, insp, last, synced,
                 crashCause>>

\* choice == 'a': the batch loop is entered
SyncAll ==
  /\ pc = "prompt"
  /\ cmd' = [NoCmd EXCEPT !.key = "a"]
  /\ pc' = "batch"
  /\ batchIdx' = 1
  /\ UNCHANGED <<rootExists, fs, tree, gitignore, alias, cycles, folder_list,
                 scanIdx, repos_found, scanned, insp, last, synced, crashCause>>

\* one iteration of the batch loop: sync_repo(repo_data)
BatchSync ==
  /\ pc = "batch"
  /\ batchIdx <= Len(repos_found)
  /\ LET rec == repos_found[batchIdx]
     IN \E failAt \in FailPoints :
          LET res == sync_repo(rec, AUTO_MESSAGE, tree[rec.name], failAt)
          IN /\ last' = res
             /\ tree' = [tree EXCEPT ![rec.name] = res.post]
             /\ synced' = Append(synced, [name |-> rec.name,
                                          report |-> res.report])
             /\ pc' = IF res.raised THEN "crashed" ELSE "batch"
             /\ crashCause' = IF res.raised THEN "save" ELSE crashCause
  /\ batchIdx' = batchIdx + 1
  /\ UNCHANGED <<rootExists, fs, gitignore, alias, cycles, folder_list,
                 scanIdx, repos_found, scanned, insp, cmd>>

\* the batch loop stopping one record short
BatchDone_early ==
  /\ pc = "batch"
  /\ batchIdx >= Len(repos_found)
  /\ pc' = "top"
  /\ UNCHANGED <<rootExists, fs, tree, gitignore, alias, cycles, folder_list,
                 scanIdx, repos_found, batchIdx, scanned, insp, last, synced,
                 crashCause, cmd>>

\* the batch loop going straight back to the prompt, without a new scan
BatchDone_to_prompt ==
  /\ pc = "batch"
  /\ batchIdx > Len(repos_found)
  /\ pc' = "prompt"
  /\ UNCHANGED <<rootExists, fs, tree, gitignore, alias, cycles, folder_list,
                 scanIdx, repos_found, batchIdx, scanned, insp, last, synced,
                 crashCause, cmd>>

\* the batch loop is over: "Batch complete! Press Enter..."
BatchDone ==
  /\ pc = "batch"
  /\ batchIdx > Len(repos_found)
  /\ pc' = "top"
  /\ UNCHANGED <<rootExists, fs, tree, gitignore, alias, cycles, folder_list,
                 scanIdx, repos_found, batchIdx, scanned, insp, last, synced,
                 crashCause, cmd>>

\* the confirmation taken as given whatever the answer
Confirmed_always(answer) == TRUE

\* input("   Sync this repo? (y/n): ").lower() == 'y'
Confirmed(answer) == Lower(answer) = "y"

\* the typed message used as it is, without the `or` default
commit_message_no_default(typed) == typed

\* input("   Enter commit message (or Enter for auto): ") or "Update via ..."
commit_message(typed) == IF typed # "" THEN typed ELSE UPDATE_MESSAGE

\* choice.isdigit(): one repository is selected by its displayed number
SelectRepo ==
  /\ pc = "prompt"
  /\ \E n \in 0..(MaxFolders + 1) :
       LET idx == n - 1
           inRange == 0 <= idx /\ idx < Len(repos_found)
           target == repos_found[idx + 1]
           read == [NoCmd EXCEPT !.key = "digit", !.n = n]
       IN IF ~inRange
          THEN /\ pc' = "top"
               /\ cmd' = read
               /\ UNCHANGED <<tree, last, synced, crashCause>>
          ELSE \E showOk \in BOOLEAN :
            IF target.dirty /\ ~showOk
            THEN /\ pc' = "crashed"
                 /\ crashCause' = "show"
                 /\ cmd' = read
                 /\ UNCHANGED <<tree, last, synced>>
            ELSE \E answer \in {"y", "Y", "n"} :
              IF ~Confirmed(answer)
              THEN /\ pc' = "top"
                   /\ cmd' = [read EXCEPT !.asked = TRUE, !.answer = answer]
                   /\ UNCHANGED <<tree, last, synced, crashCause>>
              ELSE \E typed \in {"", "wip"}, failAt \in FailPoints :
                LET msg == commit_message(typed)
                    res == sync_repo(target, msg, tree[target.name], failAt)
                IN /\ last' = res
                   /\ tree' = [tree EXCEPT ![target.name] = res.post]
                   /\ synced' = Append(synced, [name |-> target.name,
                                                report |-> res.report])
                   /\ pc' = IF res.raised THEN "crashed" ELSE "top"
                   /\ crashCause' = IF res.raised THEN "save" ELSE crashCause
                   /\ cmd' = [read EXCEPT !.asked = TRUE, !.answer = answer,
                                          !.typed = typed]
  /\ UNCHANGED <<rootExists, fs, gitignore, alias, cycles, folder_list,
                 scanIdx, repos_found, batchIdx, scanned, insp>>

Next ==
  \/ Start
  \/ BeginScan
  \/ ScanFolder
  \/ ShowMenu
  \/ Quit
  \/ Refresh
  \/ SetupAlias
  \/ SetupIgnore
  \/ SetupOther
  \/ SyncAll
  \/ BatchSync
  \/ BatchDone
  \/ SelectRepo

Spec == Init /\ [][Next]_vars

TypeOK ==
  /\ pc \in {"start", "top", "scan", "prompt", "batch", "exited", "aborted",
             "crashed"}
  /\ cycles \in 0..MaxCycles
  /\ cmd.key \in {"", "q", "r", "s", "a", "digit"}
  /\ cmd.n \in 0..(MaxFolders + 1)

\* ------------------------------------------------- reading the last sync
\* the last sync_repo call made the call `name`, whether or not it raised
Tried(name) == \E i \in DOMAIN last.ops : last.ops[i].op = name

\* the last sync_repo call made the call `name` and it returned
Did(name) == \E i \in DOMAIN last.ops : last.ops[i] = Op(name, TRUE)

\* no call of the last sync_repo call raised
AllOk == \A i \in DOMAIN last.ops : last.ops[i].ok

\* a call of the push/pull block of the last sync_repo call raised
RemoteFailed ==
  \E i \in DOMAIN last.ops :
    last.ops[i].op \in {"lookup", "pull", "push"} /\ ~last.ops[i].ok

CleanStatus(rec) == ~rec.dirty /\ rec.ahead = 0 /\ rec.behind = 0

Listed == {repos_found[i].name : i \in DOMAIN repos_found}

\* the scan got a record for the entry
HasRecord(f) == scanned[f] \in {"zero", "counted"}

\* ------------------------------------------------------------------- C1
\* C1 (as claimed): for a status with dirty = false, ahead = 0, behind = 0,
\* sync_repo makes no commit, no pull and no push and reports "already
\* clean".
C1_CleanStatusReportsClean ==
  (last.called /\ CleanStatus(last.rec)) =>
     /\ ~Tried("stage") /\ ~Tried("commit") /\ ~Tried("pull") /\ ~Tried("push")
     /\ last.report = "clean"

\* ------------------------------------------------------------------- C2
\* C2: in a sync of a dirty status, every call of the push/pull block (the
\* remote lookup, the pull, the push) comes after the staging and the commit
\* have both been done.
C2_CommitBeforeRemote ==
  (last.called /\ last.rec.dirty) =>
     \A i \in DOMAIN last.ops :
        last.ops[i].op \in {"lookup", "pull", "push"} =>
           \E j \in 1..(i - 1), k \in 1..(i - 1) :
              /\ j < k
              /\ last.ops[j] = Op("stage", TRUE)
              /\ last.ops[k] = Op("commit", TRUE)

\* a dirty status that is also behind was committed, then pulled, then pushed
C2_Witness ==
  /\ last.called /\ last.rec.dirty
  /\ Did("commit") /\ Did("pull") /\ Did("push")

\* ------------------------------------------------------------------- C3
\* C3: when no call raises, sync_repo commits iff the status is dirty, pulls
\* iff behind > 0 and pushes iff the status is dirty or ahead > 0.
C3_OperationsFollowStatus ==
  (last.called /\ AllOk) =>
     /\ Did("commit") <=> last.rec.dirty
     /\ Did("stage") <=> last.rec.dirty
     /\ Did("pull") <=> last.rec.behind > 0
     /\ Did("push") <=> (last.rec.dirty \/ last.rec.ahead > 0)

\* a dirty status with ahead = behind = 0 got commit + push and no pull
C3_Witness ==
  /\ last.called /\ AllOk
  /\ last.rec.dirty /\ last.rec.ahead = 0 /\ last.rec.behind = 0
  /\ Did("commit") /\ Did("push") /\ ~Tried("pull")

\* ------------------------------------------------------------------- C4
\* C4 (as claimed): whatever the scanned status, if no call of sync_repo
\* raises, the repository is afterwards not dirty, not ahead and not behind.
C4_SyncReconciles ==
  (last.called /\ AllOk) => last.post = NoTree

\* C4 (amended): the same, for a status whose ahead and behind were counted
\* by the scan (the fetch succeeded and the branch has a tracking branch).
C4_SyncReconcilesCounted ==
  (last.called /\ AllOk /\ scanned[last.rec.name] = "counted") =>
     last.post = NoTree

\* a counted status that was dirty, ahead and behind ended reconciled
C4_Witness ==
  /\ last.called /\ AllOk /\ scanned[last.rec.name] = "counted"
  /\ last.rec.dirty /\ last.rec.ahead > 0 /\ last.rec.behind > 0
  /\ last.post = NoTree

\* ------------------------------------------------------------------- C5
\* C5: in a batch sync, a remote lookup, pull or push that raises is caught
\* and reported for its repository and leaves the batch loop running: the
\* calls made so far are those for the first repositories of the scanned
\* list in order, and a batch that ends without a crash has called
\* sync_repo for every listed repository.
C5_RemoteFailureKeepsBatchGoing ==
  batchIdx >= 1 =>
     /\ (last.called /\ RemoteFailed) =>
           /\ last.report = "error" /\ ~last.raised
           /\ pc \in {"batch", "top"}
     /\ Len(synced) = batchIdx - 1
     /\ \A i \in DOMAIN synced : synced[i].name = repos_found[i].name
     /\ pc = "top" => Len(synced) = Len(repos_found)

\* a batch in which the first repository's remote step failed went on to
\* sync the second one
C5_Witness ==
  /\ batchIdx >= 1 /\ pc = "top"
  /\ Len(synced) = 2
  /\ synced[1].report = "error"

\* ------------------------------------------------------------------- C6
\* C6 (as claimed): no failure raised during a step of a sync (listing the
\* changed files, staging, committing, pulling, pushing) terminates the
\* dashboard.
C6_NoSyncFailureIsFatal ==
  pc = "crashed" => crashCause \notin {"save", "show"}

\* ------------------------------------------------------------------- C7
\* C7: a candidate for which Repo() raises gets no record and is not listed,
\* the scan goes on, and at the prompt every entry has been visited and
\* repos_found holds exactly the entries that got a record, in folder
\* order (so they are numbered 1, 2, ... without gaps).
C7_InvalidRepositoryExcluded ==
  /\ (insp.folder # 0 /\ "open" \in insp.failed) =>
        /\ insp.result = None
        /\ insp.folder \notin Listed
        /\ pc = "scan"
  /\ (pc = "prompt" /\ folder_list # <<>>) =>
        /\ \A f \in Folders : scanned[f] # "unseen"
        /\ \A f \in Folders : scanned[f] = "invalid" => f \notin Listed
        /\ [i \in DOMAIN repos_found |-> repos_found[i].name]
             = SelectSeq(folder_list, HasRecord)

\* an invalid candidate was left out and the repository behind it was
\* listed as number 1
C7_Witness ==
  /\ pc = "prompt"
  /\ \E i, j \in DOMAIN folder_list :
       /\ i < j
       /\ scanned[folder_list[i]] = "invalid"
       /\ HasRecord(folder_list[j])
       /\ Len(repos_found) = 1
       /\ repos_found[1].name = folder_list[j]

\* ------------------------------------------------------------------- C8
\* C8 (as claimed): for a valid repository (Repo() returned), whichever of
\* the inspection operations raises, a record is still returned, and it
\* carries the results of the operations that completed.
C8_InspectionStepsIndependent ==
  (insp.folder # 0 /\ "open" \in insp.done) =>
     /\ insp.result # None
     /\ "dirty" \in insp.done => insp.result.dirty = tree[insp.folder].wt
     /\ "branch" \in insp.done => insp.result.branch = "main"

\* ------------------------------------------------------------------- C9
\* C9: a record returned when the fetch raised, when no tracking branch is
\* configured or when HEAD is detached has ahead = 0 and behind = 0 (and
\* branch "DETACHED" when detached); none of the three costs the record (a
\* missing record always comes from Repo() or the dirty check raising); and
\* no record has a negative count.
C9_SwallowedFailuresGiveZero ==
  /\ (insp.folder # 0 /\ insp.result # None
        /\ ("fetch" \in insp.failed \/ ~insp.tracked \/ "branch" \in insp.failed)) =>
        /\ insp.result.ahead = 0
        /\ insp.result.behind = 0
        /\ "branch" \in insp.failed => insp.result.branch = "DETACHED"
  /\ (insp.folder # 0 /\ "fetch" \in insp.failed) => insp.result # None
  /\ (insp.folder # 0 /\ insp.result = None) =>
        insp.failed \cap {"open", "dirty"} # {}
  /\ \A i \in DOMAIN repos_found :
        repos_found[i].ahead >= 0 /\ repos_found[i].behind >= 0

\* the fetch raised for a repository that is behind its remote, and the
\* record says 0 / 0
C9_Witness ==
  /\ insp.folder # 0
  /\ "fetch" \in insp.failed
  /\ tree[insp.folder].behind > 0
  /\ insp.result # None
  /\ insp.result.behind = 0 /\ insp.result.ahead = 0

\* ------------------------------------------------------------------ C10
\* C10: with the root directory missing, main_dashboard never enters the
\* loop: no scan, no prompt, no sync and no setup operation.
C10_MissingRootNeverEntersLoop ==
  ~rootExists =>
     /\ pc \in {"start", "aborted"}
     /\ cycles = 0
     /\ repos_found = <<>>
     /\ ~last.called /\ synced = <<>>
     /\ gitignore = {} /\ ~alias

\* the dashboard ended on the missing root
C10_Witness == ~rootExists /\ pc = "aborted"

\* ------------------------------------------------------------------ C11
\* C11: every step of the dashboard follows the cycle SCANNING -> DISPLAY ->
\* AWAITING_COMMAND -> action: the prompt is only reached from a scan that
\* has visited every entry; the head of the loop only starts a new scan; a
\* command leads to the batch loop, to the exit, or (once its action has
\* completed) back to the head of the loop; the batch loop only ends after
\* its last repository; and no step at all is taken after the exit.
C11_LoopIsStateMachine ==
  [][ /\ pc # "exited"
      /\ pc' = "prompt" => (pc = "scan" /\ scanIdx > Len(folder_list))
      /\ pc = "top" =>
           (pc' = "scan" /\ cycles' = cycles + 1 /\ repos_found' = <<>>)
      /\ pc = "scan" => pc' \in {"scan", "prompt"}
      /\ pc = "prompt" =>
           /\ pc' \in {"top", "batch", "exited", "crashed"}
           /\ pc' = "exited" <=> cmd'.key = "q"
           /\ pc' = "batch" => cmd'.key = "a"
           /\ (cmd'.key \in {"r", "s", "digit"} /\ pc' # "crashed") =>
                pc' = "top"
      /\ pc = "batch" =>
           /\ pc' \in {"batch", "top", "crashed"}
           /\ pc' = "top" => batchIdx > Len(repos_found)
           /\ pc' = "batch" => batchIdx <= Len(repos_found)
    ]_vars

\* a single sync has completed and the loop is back at its head, about to
\* scan again
C11_Witness ==
  /\ pc = "top"
  /\ cmd.key = "digit"
  /\ last.called /\ ~last.raised
  /\ cycles < MaxCycles

\* ------------------------------------------------------------------ C12
\* the record of the list agrees with the working tree of its repository
RecordIsCurrent(i) == repos_found[i].dirty = tree[repos_found[i].name].wt

\* C12: at the prompt the list holds the records of this scan only (one per
\* repository, each showing its current working tree); a number n within the
\* list syncs the record listed as number n and touches no other repository;
\* a number 0 or beyond the list is rejected: no sync_repo call, no change to
\* any repository, and the loop goes back to its head.
C12_NumberSelectsListedRecord ==
  /\ pc = "prompt" =>
        /\ \A i, j \in DOMAIN repos_found :
              repos_found[i].name = repos_found[j].name => i = j
        /\ \A i \in DOMAIN repos_found : RecordIsCurrent(i)
  /\ cmd.key = "digit" =>
        IF cmd.n \in 1..Len(repos_found)
        THEN /\ last.called =>
                  /\ last.rec = repos_found[cmd.n]
                  /\ Len(synced) = 1
                  /\ synced[1].name = repos_found[cmd.n].name
             /\ \A i \in DOMAIN repos_found :
                  (i # cmd.n \/ ~last.called) => RecordIsCurrent(i)
        ELSE /\ ~last.called
             /\ synced = <<>>
             /\ pc = "top"
             /\ \A i \in DOMAIN repos_found : RecordIsCurrent(i)

\* in the second scan cycle number 2 was entered and the second record of
\* that scan was synced
C12_Witness ==
  /\ cycles = 2
  /\ cmd.key = "digit" /\ cmd.n = 2
  /\ Len(repos_found) = 2
  /\ last.called /\ last.rec = repos_found[2]
  /\ Did("commit")

\* ------------------------------------------------------------------ C13
\* C13: the message of the commit made by a sync of a dirty status is, for a
\* sync by number, the text typed at the message prompt when that is not
\* empty and exactly "Update via Fleet Commander" when it is empty; for every
\* commit of a batch sync it is exactly "Auto-sync via Fleet Commander".
C13_CommitMessage ==
  (last.called /\ Did("commit")) =>
     /\ last.rec.dirty
     /\ cmd.key \in {"digit", "a"}
     /\ cmd.key = "digit" =>
          last.committed = IF cmd.typed = "" THEN "Update via Fleet Commander"
                           ELSE cmd.typed
     /\ cmd.key = "a" => last.committed = "Auto-sync via Fleet Commander"

\* a dirty repository was committed by a single sync with the message
\* prompt left empty
C13_Witness ==
  /\ last.called /\ last.rec.dirty /\ Did("commit")
  /\ cmd.key = "digit" /\ cmd.typed = ""
  /\ last.committed = "Update via Fleet Commander"

\* ------------------------------------------------------------------ C14
\* C14 (as claimed): every listed record belongs to an immediate
\* subdirectory of the root that contains .git (no plain file, no directory
\* without it), and the list, and so its numbering, is in alphabetical order
\* of folder name: a name appears before every name whose first letter comes
\* later in the alphabet.
C14_ListIsAlphabetical ==
  /\ \A f \in Listed : fs[f] = "repo"
  /\ \A i, j \in DOMAIN repos_found :
        i < j => Letter(repos_found[i].name) < Letter(repos_found[j].name)

\* ------------------------------------------------------------------ C15
\* the place of a step in the order commit, pull, push
StepRank(name) ==
  IF name = "commit" THEN 1 ELSE IF name = "pull" THEN 2 ELSE 3

\* C15: in every sync, whatever the combination of dirty, ahead > 0 and
\* behind > 0, the commit, the pull and the push that are made come in that
\* order and each at most once; for a status that is behind, a push is only
\* attempted after a pull that succeeded (and for a dirty one, after the
\* commit); when no call raises, the sync ends without an error whatever
\* the combination, and a status that is dirty and behind gets exactly one
\* commit, one pull and one push.
C15_StepsInStrictOrder ==
  last.called =>
     /\ \A i, j \in DOMAIN last.ops :
           (/\ i < j
            /\ last.ops[i].op \in {"commit", "pull", "push"}
            /\ last.ops[j].op \in {"commit", "pull", "push"}) =>
              StepRank(last.ops[i].op) < StepRank(last.ops[j].op)
     /\ \A j \in DOMAIN last.ops :
           last.ops[j].op = "push" =>
              /\ last.rec.behind > 0 =>
                    \E i \in 1..(j - 1) : last.ops[i] = Op("pull", TRUE)
              /\ last.rec.dirty =>
                    \E i \in 1..(j - 1) : last.ops[i] = Op("commit", TRUE)
     /\ AllOk =>
           /\ ~last.raised /\ last.report # "error"
           /\ (last.rec.dirty /\ last.rec.behind > 0) =>
                 \A name \in {"commit", "pull", "push"} :
                    Cardinality({i \in DOMAIN last.ops :
                                   last.ops[i] = Op(name, TRUE)}) = 1

\* a status that was dirty, ahead and behind went through all the steps
C15_Witness ==
  /\ last.called
  /\ last.rec.dirty /\ last.rec.ahead > 0 /\ last.rec.behind > 0
  /\ last.ops = <<Op("show", TRUE), Op("stage", TRUE), Op("commit", TRUE),
                  Op("lookup", TRUE), Op("pull", TRUE), Op("push", TRUE)>>

\* ------------------------------------------------------------------ C16
\* C16: during a batch sync the sync_repo calls made so far are the first
\* records of the list of the preceding scan, one call per record, in the
\* displayed order, the latest call being the one on the record last
\* reached; and when the batch has run to completion there has been exactly
\* one call for every listed record.
C16_BatchSyncsEachOnce ==
  cmd.key = "a" =>
     /\ Len(synced) <= Len(repos_found)
     /\ \A i \in DOMAIN synced : synced[i].name = repos_found[i].name
     /\ \A i, j \in DOMAIN synced : synced[i].name = synced[j].name => i = j
     /\ last.called <=> synced # <<>>
     /\ last.called => last.rec = repos_found[Len(synced)]
     /\ pc = "batch" => Len(synced) = batchIdx - 1
     /\ pc = "top" => Len(synced) = Len(repos_found)

\* a batch over two listed repositories ran to completion, the second one
\* being pushed
C16_Witness ==
  /\ cmd.key = "a" /\ pc = "top"
  /\ Len(repos_found) = 2 /\ Len(synced) = 2
  /\ synced[1].report # "error"
  /\ last.rec = repos_found[2] /\ Did("push")

\* ------------------------------------------------------------------ C17
\* the pull of the last sync_repo call raised
PullFailed == \E i \in DOMAIN last.ops : last.ops[i] = Op("pull", FALSE)

\* C17: when the pull of a sync raises, no push is attempted in that sync,
\* the error is reported and not raised, and the commit of the save step
\* stays: a status that was dirty has been committed and the repository is
\* left with that commit unpushed (ahead of its remote).
C17_FailedPullStopsBeforePush ==
  (last.called /\ PullFailed) =>
     /\ ~Tried("push")
     /\ last.report = "error" /\ ~last.raised
     /\ last.ops[Len(last.ops)] = Op("pull", FALSE)
     /\ last.rec.dirty =>
          /\ Did("commit")
          /\ last.committed = last.msg
          /\ last.post.ahead >= 1
          /\ tree[last.rec.name].ahead >= 1

\* a repository that was dirty and behind: committed, the pull raised, the
\* commit is still there and unpushed
C17_Witness ==
  /\ last.called /\ PullFailed
  /\ last.rec.dirty /\ last.rec.behind > 0
  /\ Did("commit")
  /\ tree[last.rec.name].ahead >= 1
  /\ tree[last.rec.name].behind > 0

\* ------------------------------------------------------------------ C18
\* C18: after a repository was selected by number, sync_repo has been called
\* only if the confirmation prompt was shown and answered y or Y; with any
\* other answer there is no sync_repo call (no commit, pull or push), every
\* listed repository is as the scan found it, and the loop is back at its
\* head; an answer y or Y does start the sync.
C18_NoSyncWithoutConfirmation ==
  cmd.key = "digit" =>
     /\ last.called => (cmd.asked /\ cmd.answer \in {"y", "Y"})
     /\ ~last.called =>
          /\ synced = <<>>
          /\ \A i \in DOMAIN repos_found : RecordIsCurrent(i)
     /\ (cmd.asked /\ cmd.answer \notin {"y", "Y"}) =>
          (~last.called /\ pc = "top")
     /\ (cmd.asked /\ cmd.answer \in {"y", "Y"}) => last.called

\* a dirty repository was selected, the confirmation was answered n, and it
\* is still dirty with the loop back at its head
C18_Witness ==
  /\ cmd.key = "digit" /\ cmd.asked /\ cmd.answer = "n"
  /\ cmd.n \in 1..Len(repos_found)
  /\ repos_found[cmd.n].dirty
  /\ tree[repos_found[cmd.n].name].wt
  /\ ~last.called
  /\ pc = "top"
====
